---------------------------- MODULE Spec2Model ----------------------------
(***************************************************************************)
(* Order back office of the Amman Steels & Electronics server: the order  *)
(* routes of src/routes/adminOrders.js over the Order collection of       *)
(* src/models/Order.js.                                                    *)
(*                                                                         *)
(* Every request handler is an async function: it runs from one await to  *)
(* the next without interruption, and other requests run in between.  A   *)
(* request is therefore a small process whose steps are its database      *)
(* calls.  A document loaded by findById is a private copy; save() of a   *)
(* loaded document validates the copy and sends only the paths whose      *)
(* value differs from the loaded one (Mongoose's $set of modified paths), *)
(* save() of a new document inserts it.  The unique indexes of the schema *)
(* make an insert or update fail with a duplicate-key error.              *)
(*                                                                         *)
(* Money is counted in hundredths of a paisa and prices are whole paise    *)
(* (multiples of 100), so that itemTotal * 18 / 100 is an integer and the *)
(* arithmetic of the handlers is exact.  The product routes of            *)
(* src/unnamed/part_005 edit and delete the products the orders are       *)
(* priced from, and the stock routes of src/unnamed/part_002 write the    *)
(* ledger of stock movements (src/unnamed/part_000) and the inStock flag  *)
(* of the products.                                                       *)
(***************************************************************************)
EXTENDS Integers, Sequences, FiniteSets, TLC

\* ---------------------------------------------------------------- bounds
MaxOrders == 1        \* createOrder is accepted while fewer orders exist
MaxReqs   == 2        \* requests in flight at the same time
MaxPeriod == 2        \* calendar months the clock runs through
MaxMovements == 2     \* a stock request is accepted while fewer movements exist
MaxProducts == 5      \* a product is accepted while fewer products exist
MaxReviews == 2       \* a review is accepted while fewer reviews exist
MaxVotes == 3         \* a vote is accepted while the review has had fewer writes

GstRate == 18         \* percent
Paisa == 100          \* the minor unit of the currency, in units of the model
Reqs == 1..MaxReqs
OrderIds == 1..(MaxOrders + MaxReqs)

\* ------------------------------------------------------------ input sets
Users == {"u1"}
ProductIds == {"ST001", "s1", "s2"}
UnknownProduct == "XX999"
UserIds == {"sa1", "sa2", "admin1"}
Customers == {"c1", "c2"}
UnknownUser == "nobody"
RoleEnum == {"super_admin", "admin", "staff"}
CategoryEnum == {"steel", "cement", "electronics", "paints"}
StatusEnum == {"draft", "confirmed", "processing", "completed", "cancelled"}
PaymentMethodEnum == {"cash", "card", "upi", "bank_transfer", "credit"}

\* ----------------------------------------------------------------- state
VARIABLES
    orders,     \* the Order collection: a sequence, an order's _id is its index
    products,   \* the Product collection, by product id
    req,        \* the requests in flight, one record per slot
    resp,       \* the response the server sent last
    today,      \* the calendar month the server clock shows
    movements,  \* the StockMovement collection: the ledger, oldest first
    reviews,    \* the Review collection: a sequence, a review's _id is its index
    users       \* the User collection, by _id
vars == <<orders, products, req, resp, today, movements, reviews, users>>

NoBody == [customerName |-> "", items |-> <<>>, paymentMethod |-> "",
           notes |-> "", amountPaid |-> <<>>, status |-> ""]

Idle == [pc |-> "idle", op |-> "", id |-> 0, user |-> "", body |-> NoBody,
         doc |-> <<>>, num |-> <<>>, i |-> 0, items |-> <<>>,
         subtotal |-> 0, totalGst |-> 0, attempts |-> 0, movement |-> <<>>]

NoResponse == [code |-> 0, message |-> "", error |-> ""]

\* ----------------------------------------------------- sequence generator
\* `${prefix}${String(count + 1).padStart(4, '0')}` with prefix ORD/INV + YYYYMM:
\* the number is the triple of its scope, its month and its ordinal.
Number(scope, period, ordinal) == <<scope, period, ordinal>>
HasPrefix(n, scope, period) == n # <<>> /\ n[1] = scope /\ n[2] = period

CountOrderNumbers(period) ==
    Cardinality({k \in 1..Len(orders) : HasPrefix(orders[k].orderNumber, "ORD", period)})
CountInvoiceNumbers(period) ==
    Cardinality({k \in 1..Len(orders) : HasPrefix(orders[k].invoiceNumber, "INV", period)})

generateOrderNumber == Number("ORD", today, CountOrderNumbers(today) + 1)
generateInvoiceNumber == Number("INV", today, CountInvoiceNumbers(today) + 1)

\* ------------------------------------------------------------ order schema
\* paid >= grandTotal ? 'paid' : paid > 0 ? 'partial' : 'pending'
PaymentStatusOf(paid, grandTotal) ==
    IF paid >= grandTotal THEN "paid" ELSE IF paid > 0 THEN "partial" ELSE "pending"

ValidItem(it) == it.quantity >= 1 /\ it.unitPrice >= 0 /\ it.discount >= 0

\* The validators of orderSchema that save() runs on a document.
ValidOrder(d) ==
    /\ d.orderNumber # <<>>
    /\ d.customer # ""
    /\ \A k \in 1..Len(d.items) : ValidItem(d.items[k])
    /\ d.subtotal >= 0 /\ d.totalDiscount >= 0 /\ d.totalGst >= 0 /\ d.grandTotal >= 0
    /\ d.paymentMethod \in PaymentMethodEnum
    /\ d.paymentStatus \in {"pending", "partial", "paid"}
    /\ d.amountPaid >= 0
    /\ d.amountDue >= 0
    /\ d.status \in StatusEnum
    /\ d.createdBy # ""

\* The paths of a loaded document that save() sends: those whose value differs.
ModifiedPaths(old, new) == {f \in DOMAIN new : new[f] # old[f]}
\* updateOne({_id}, {$set: ...}) on the stored document.
SetPaths(stored, new, paths) ==
    [f \in DOMAIN stored |-> IF f \in paths THEN new[f] ELSE stored[f]]

\* unique index on orderNumber; unique sparse index on invoiceNumber
OrderNumberTaken(n) == \E k \in 1..Len(orders) : orders[k].orderNumber = n
InvoiceNumberTaken(n, self) ==
    \E k \in 1..Len(orders) : k # self /\ orders[k].invoiceNumber = n

\* res.status(code).json({ message }) ends the request whose record is `rec`;
\* `error` is the exception its catch block caught, if any.
Respond(r, rec, code, message, error) ==
    /\ req' = [req EXCEPT ![r] = Idle]
    /\ resp' = [code |-> code, message |-> message, error |-> error]

\* The request goes on to its next database call.
Continue(r, rec) ==
    /\ req' = [req EXCEPT ![r] = rec]
    /\ UNCHANGED resp

\* A request that arrives is handled in the first slot that is free.
Free(r) == req[r].pc = "idle" /\ \A k \in 1..(r - 1) : req[k].pc # "idle"

\* -------------------------------------------- POST /api/admin/orders
\* Validation of the body, then Order.generateOrderNumber().
CreateOrderBegin(r, user, body) ==
    LET rec == [Idle EXCEPT !.op = "create", !.user = user, !.body = body] IN
    /\ Free(r)
    /\ Len(orders) < MaxOrders
    /\ IF body.customerName = "" \/ Len(body.items) < 1
       THEN Respond(r, rec, 400, "Validation failed", "")
       ELSE Continue(r, [rec EXCEPT !.pc = "create_price",
                                    !.num = generateOrderNumber,
                                    !.attempts = 1,
                                    !.i = 1])
    /\ UNCHANGED <<orders, products, today, movements, reviews, users>>

\* ProcessedItem with a line total that leaves the GST out.
ProcessedItemNoGst(item, product, sku) ==
    LET itemTotal == product.price * item.quantity
        gst == (itemTotal \div 100) * GstRate + ((itemTotal % 100) * GstRate) \div 100
    IN [productName |-> product.name, sku |-> sku, quantity |-> item.quantity,
        unit |-> product.unit, unitPrice |-> product.price, discount |-> 0,
        gstRate |-> GstRate, gstAmount |-> gst, totalAmount |-> itemTotal]

\* One line of the order priced from the product found for it.
ProcessedItem(item, product, sku) ==
    LET itemTotal == product.price * item.quantity
        \* (itemTotal * 18) / 100, the hundreds multiplied apart from the rest
        gst == (itemTotal \div 100) * GstRate + ((itemTotal % 100) * GstRate) \div 100
    IN [productName |-> product.name, sku |-> sku, quantity |-> item.quantity,
        unit |-> product.unit, unitPrice |-> product.price, discount |-> 0,
        gstRate |-> GstRate, gstAmount |-> gst, totalAmount |-> itemTotal + gst]

\* CreateOrderPrice that passes over an item whose product is not found.
CreateOrderPriceSkip(r) ==
    LET q == req[r]
        item == q.body.items[q.i]
        next == [q EXCEPT !.i = @ + 1,
                          !.pc = IF q.i = Len(q.body.items)
                                 THEN "create_save" ELSE "create_price"]
    IN
    /\ q.pc = "create_price"
    /\ IF item.productId \notin DOMAIN products
       THEN Continue(r, next)
       ELSE LET p == ProcessedItem(item, products[item.productId], item.productId)
            IN Continue(r, [next EXCEPT !.items = Append(@, p),
                                        !.subtotal = @ + p.unitPrice * p.quantity,
                                        !.totalGst = @ + p.gstAmount])
    /\ UNCHANGED <<orders, products, today, movements, reviews, users>>

\* One turn of the loop over the items: Product.findOne, then the pricing.
CreateOrderPrice(r) ==
    LET q == req[r]
        item == q.body.items[q.i]
    IN
    /\ q.pc = "create_price"
    /\ IF item.productId \notin DOMAIN products
       THEN Respond(r, q, 400, "Product not found", "")
       ELSE LET p == ProcessedItem(item, products[item.productId], item.productId)
            IN Continue(r, [q EXCEPT !.items = Append(@, p),
                                     !.subtotal = @ + p.unitPrice * p.quantity,
                                     !.totalGst = @ + p.gstAmount,
                                     !.i = @ + 1,
                                     !.pc = IF q.i = Len(q.body.items)
                                            THEN "create_save" ELSE "create_price"])
    /\ UNCHANGED <<orders, products, today, movements, reviews, users>>

\* NewOrder with a grand total that leaves the GST out.
NewOrderNoGst(q) ==
    LET grandTotal == q.subtotal
        paid == IF q.body.amountPaid = <<>> THEN 0 ELSE q.body.amountPaid[1]
    IN [orderNumber |-> q.num, invoiceNumber |-> <<>>,
        customer |-> q.body.customerName, items |-> q.items,
        subtotal |-> q.subtotal, totalDiscount |-> 0, totalGst |-> q.totalGst,
        grandTotal |-> grandTotal,
        paymentMethod |-> IF q.body.paymentMethod = "" THEN "cash"
                          ELSE q.body.paymentMethod,
        paymentStatus |-> PaymentStatusOf(paid, grandTotal),
        amountPaid |-> paid, amountDue |-> grandTotal - paid,
        status |-> "confirmed", notes |-> q.body.notes,
        createdBy |-> q.user, processedBy |-> ""]

\* new Order({...}) of the handler
NewOrder(q) ==
    LET grandTotal == q.subtotal + q.totalGst
        paid == IF q.body.amountPaid = <<>> THEN 0 ELSE q.body.amountPaid[1]
    IN [orderNumber |-> q.num, invoiceNumber |-> <<>>,
        customer |-> q.body.customerName, items |-> q.items,
        subtotal |-> q.subtotal, totalDiscount |-> 0, totalGst |-> q.totalGst,
        grandTotal |-> grandTotal,
        paymentMethod |-> IF q.body.paymentMethod = "" THEN "cash"
                          ELSE q.body.paymentMethod,
        paymentStatus |-> PaymentStatusOf(paid, grandTotal),
        amountPaid |-> paid, amountDue |-> grandTotal - paid,
        status |-> "confirmed", notes |-> q.body.notes,
        createdBy |-> q.user, processedBy |-> ""]

\* order.save() of the new document and the response.
CreateOrderSave(r) ==
    LET q == req[r]
        order == NewOrder(q)
    IN
    /\ q.pc = "create_save"
    /\ IF ~ValidOrder(order)
       THEN /\ Respond(r, q, 500, "Server error", "ValidationError")
            /\ UNCHANGED orders
       ELSE IF OrderNumberTaken(order.orderNumber)
       THEN /\ Respond(r, q, 500, "Server error", "DuplicateKey")
            /\ UNCHANGED orders
       ELSE /\ orders' = Append(orders, order)
            /\ Respond(r, [q EXCEPT !.id = Len(orders) + 1], 201, "Order created", "")
    /\ UNCHANGED <<products, today, movements, reviews, users>>

\* -------------------------------------------- PUT /api/admin/orders/:id
\* Order.findById
UpdateOrderFind(r, user, id, body) ==
    LET rec == [Idle EXCEPT !.op = "update", !.user = user, !.id = id, !.body = body] IN
    /\ Free(r)
    /\ IF id > Len(orders)
       THEN Respond(r, rec, 404, "Order not found", "")
       ELSE Continue(r, [rec EXCEPT !.pc = "update_save", !.doc = <<orders[id]>>])
    /\ UNCHANGED <<orders, products, today, movements, reviews, users>>

\* ApplyUpdate with amountDue left as it was loaded.
ApplyUpdateStaleDue(order, body, user) ==
    LET s1 == IF body.status # "" THEN [order EXCEPT !.status = body.status] ELSE order
        s2 == IF body.amountPaid # <<>>
              THEN [s1 EXCEPT !.amountPaid = body.amountPaid[1],
                              !.paymentStatus =
                                  PaymentStatusOf(body.amountPaid[1], s1.grandTotal)]
              ELSE s1
        s3 == IF body.notes # "" THEN [s2 EXCEPT !.notes = body.notes] ELSE s2
    IN [s3 EXCEPT !.processedBy = user]

\* The assignments of the handler to the loaded document.
ApplyUpdate(order, body, user) ==
    LET s1 == IF body.status # "" THEN [order EXCEPT !.status = body.status] ELSE order
        s2 == IF body.amountPaid # <<>>
              THEN [s1 EXCEPT !.amountPaid = body.amountPaid[1],
                              !.amountDue = s1.grandTotal - body.amountPaid[1],
                              !.paymentStatus =
                                  PaymentStatusOf(body.amountPaid[1], s1.grandTotal)]
              ELSE s1
        s3 == IF body.notes # "" THEN [s2 EXCEPT !.notes = body.notes] ELSE s2
    IN [s3 EXCEPT !.processedBy = user]

\* order.save() of the loaded document and the response.
UpdateOrderSave(r) ==
    LET q == req[r]
        new == ApplyUpdate(q.doc[1], q.body, q.user)
    IN
    /\ q.pc = "update_save"
    /\ IF ~ValidOrder(new)
       THEN /\ Respond(r, q, 500, "Server error", "ValidationError")
            /\ UNCHANGED orders
       ELSE /\ orders' = [orders EXCEPT ![q.id] =
                            SetPaths(@, new, ModifiedPaths(q.doc[1], new))]
            /\ Respond(r, q, 200, "Order updated", "")
    /\ UNCHANGED <<products, today, movements, reviews, users>>

\* -------------------------------------------- POST /api/admin/orders/:id/invoice
\* IssueInvoiceFind without its test of order.invoiceNumber.
IssueInvoiceFindUnchecked(r, user, id) ==
    LET rec == [Idle EXCEPT !.op = "invoice", !.user = user, !.id = id] IN
    /\ Free(r)
    /\ IF id > Len(orders)
       THEN Respond(r, rec, 404, "Order not found", "")
       ELSE Continue(r, [rec EXCEPT !.pc = "invoice_generate", !.doc = <<orders[id]>>])
    /\ UNCHANGED <<orders, products, today, movements, reviews, users>>

\* Order.findById, and the test of order.invoiceNumber.
IssueInvoiceFind(r, user, id) ==
    LET rec == [Idle EXCEPT !.op = "invoice", !.user = user, !.id = id] IN
    /\ Free(r)
    /\ IF id > Len(orders)
       THEN Respond(r, rec, 404, "Order not found", "")
       ELSE IF orders[id].invoiceNumber # <<>>
       THEN Respond(r, rec, 400, "Invoice exists", "")
       ELSE Continue(r, [rec EXCEPT !.pc = "invoice_generate", !.doc = <<orders[id]>>])
    /\ UNCHANGED <<orders, products, today, movements, reviews, users>>

\* Order.generateInvoiceNumber()
IssueInvoiceGenerate(r) ==
    /\ req[r].pc = "invoice_generate"
    /\ Continue(r, [req[r] EXCEPT !.pc = "invoice_save",
                                   !.num = generateInvoiceNumber,
                                   !.attempts = 1])
    /\ UNCHANGED <<orders, products, today, movements, reviews, users>>

\* ApplyInvoice that gives the order the new number as its order number too.
ApplyInvoiceRenumber(order, num) ==
    [order EXCEPT !.invoiceNumber = num, !.status = "completed", !.orderNumber = num]

\* The assignments of the handler to the loaded document.
ApplyInvoice(order, num) ==
    [order EXCEPT !.invoiceNumber = num, !.status = "completed"]

\* order.save() of the loaded document and the response.
IssueInvoiceSave(r) ==
    LET q == req[r]
        new == ApplyInvoice(q.doc[1], q.num)
        paths == ModifiedPaths(q.doc[1], new)
    IN
    /\ q.pc = "invoice_save"
    /\ IF ~ValidOrder(new)
       THEN /\ Respond(r, q, 500, "Server error", "ValidationError")
            /\ UNCHANGED orders
       ELSE IF "invoiceNumber" \in paths /\ InvoiceNumberTaken(new.invoiceNumber, q.id)
       THEN /\ Respond(r, q, 500, "Server error", "DuplicateKey")
            /\ UNCHANGED orders
       ELSE /\ orders' = [orders EXCEPT ![q.id] = SetPaths(@, new, paths)]
            /\ Respond(r, q, 200, "Invoice generated", "")
    /\ UNCHANGED <<products, today, movements, reviews, users>>

\* -------------------------------------------- POST /api/admin/products
\* category.substring(0, 3).toUpperCase()
Prefix(category) ==
    CASE category = "steel" -> "STE"
      [] category = "cement" -> "CEM"
      [] category = "electronics" -> "ELE"
      [] OTHER -> "PAI"
\* String(n).padStart(3, '0')
PadStart3(n) ==
    IF n < 10 THEN "00" \o ToString(n)
    ELSE IF n < 100 THEN "0" \o ToString(n) ELSE ToString(n)
\* `${prefix}${String(count + 1).padStart(3, '0')}`
GeneratedId(category, count) == Prefix(category) \o PadStart3(count + 1)

\* Product.countDocuments({ category })
CountProducts(category) ==
    Cardinality({p \in DOMAIN products : products[p].category = category})

\* The validators of the route, then Product.countDocuments and the id.
CreateProductCount(r, user, body) ==
    LET rec == [Idle EXCEPT !.op = "product", !.user = user, !.body = body] IN
    /\ Free(r)
    /\ Cardinality(DOMAIN products) < MaxProducts
    /\ IF \/ body.name = "" \/ body.category \notin CategoryEnum \/ body.price < 0
          \/ body.unit = "" \/ body.description = ""
       THEN Respond(r, rec, 400, "Validation failed", "")
       ELSE Continue(r, [rec EXCEPT
                !.pc = "product_save",
                !.num = <<GeneratedId(body.category, CountProducts(body.category))>>])
    /\ UNCHANGED <<orders, products, today, movements, reviews, users>>

\* product.save() of the new product and the response; id has a unique index.
CreateProductSave(r) ==
    LET q == req[r]
        id == q.num[1]
    IN
    /\ q.pc = "product_save"
    /\ IF id \in DOMAIN products
       THEN /\ Respond(r, q, 500, "Server error", "DuplicateKey")
            /\ UNCHANGED products
       ELSE /\ products' = [p \in DOMAIN products \cup {id} |->
                   IF p = id
                   THEN [name |-> q.body.name, price |-> q.body.price,
                         unit |-> q.body.unit, inStock |-> TRUE,
                         category |-> q.body.category]
                   ELSE products[p]]
            /\ Respond(r, q, 201, "Product created successfully", "")
    /\ UNCHANGED <<orders, today, movements, reviews, users>>

\* -------------------------------------------- PUT /api/admin/products/:id
NoProductData ==
    [name |-> "", category |-> "", price |-> <<>>, unit |-> "", inStock |-> <<>>]

\* updateData applied to a product: the fields the body gives.
ApplyProductData(product, data) ==
    [name |-> IF data.name # "" THEN data.name ELSE product.name,
     category |-> IF data.category # "" THEN data.category ELSE product.category,
     price |-> IF data.price # <<>> THEN data.price[1] ELSE product.price,
     unit |-> IF data.unit # "" THEN data.unit ELSE product.unit,
     inStock |-> IF data.inStock # <<>> THEN data.inStock[1] ELSE product.inStock]

\* UpdateProduct that also writes the product into the orders that name it.
UpdateProductCascade(id, data) ==
    /\ IF \/ data.price # <<>> /\ data.price[1] < 0
          \/ data.category # "" /\ data.category \notin CategoryEnum
       THEN /\ resp' = [code |-> 500, message |-> "Server error",
                        error |-> "ValidationError"]
            /\ UNCHANGED <<products, orders>>
       ELSE IF id \notin DOMAIN products
       THEN /\ resp' = [code |-> 404, message |-> "Product not found", error |-> ""]
            /\ UNCHANGED <<products, orders>>
       ELSE /\ products' = [products EXCEPT ![id] = ApplyProductData(@, data)]
            /\ orders' = [k \in 1..Len(orders) |->
                  [orders[k] EXCEPT !.items = [j \in 1..Len(@) |->
                      IF @[j].sku = id
                      THEN ProcessedItem(@[j], ApplyProductData(products[id], data), id)
                      ELSE @[j]]]]
            /\ resp' = [code |-> 200, message |-> "Product updated successfully",
                        error |-> ""]
    /\ UNCHANGED <<req, today, movements, reviews, users>>

\* Product.findOneAndUpdate({ id }, updateData, { new: true, runValidators: true })
\* and the response: one database call.  The update validators run before the
\* query is sent.
UpdateProduct(id, data) ==
    /\ IF \/ data.price # <<>> /\ data.price[1] < 0
          \/ data.category # "" /\ data.category \notin CategoryEnum
       THEN /\ resp' = [code |-> 500, message |-> "Server error",
                        error |-> "ValidationError"]
            /\ UNCHANGED products
       ELSE IF id \notin DOMAIN products
       THEN /\ resp' = [code |-> 404, message |-> "Product not found", error |-> ""]
            /\ UNCHANGED products
       ELSE /\ products' = [products EXCEPT ![id] = ApplyProductData(@, data)]
            /\ resp' = [code |-> 200, message |-> "Product updated successfully",
                        error |-> ""]
    /\ UNCHANGED <<orders, req, today, movements, reviews, users>>

\* -------------------------------------------- DELETE /api/admin/products/:id
\* Product.findOneAndDelete({ id }) and the response: one database call.
DeleteProduct(id) ==
    /\ IF id \notin DOMAIN products
       THEN /\ resp' = [code |-> 404, message |-> "Product not found", error |-> ""]
            /\ UNCHANGED products
       ELSE /\ products' = [p \in DOMAIN products \ {id} |-> products[p]]
            /\ resp' = [code |-> 200, message |-> "Product deleted successfully",
                        error |-> ""]
    /\ UNCHANGED <<orders, req, today, movements, reviews, users>>

\* -------------------------------------------- POST /api/admin/stock/...
Max(a, b) == IF a >= b THEN a ELSE b

\* previousStock of the three handlers, from the inStock flag of the product.
PreviousStock(op, inStock, quantity) ==
    IF op = "stock_out" THEN (IF inStock THEN quantity ELSE 0)
    ELSE (IF inStock THEN 1 ELSE 0)

\* The decimal numeral of a followed by that of b, read as a number.
RECURSIVE Shifted(_, _)
Shifted(a, b) == IF b < 10 THEN a * 10 ELSE 10 * Shifted(a, b \div 10)
Concat(a, b) == Shifted(a, b) + b

\* previousStock + quantity of JavaScript: the validator isInt accepts the
\* quantity as a JSON number and as a JSON string of digits; the sum with a
\* string is the concatenation, which the schema casts back to a Number.
Plus(previousStock, body) ==
    IF body.quoted THEN Concat(previousStock, body.quantity)
    ELSE previousStock + body.quantity

\* newStock of the three handlers.
NewStock(op, body, previousStock) ==
    IF op = "stock_in" \/ (op = "adjustment" /\ body.type = "return")
    THEN Plus(previousStock, body)
    ELSE Max(0, previousStock - body.quantity)

\* new StockMovement({...})
NewMovement(op, body, product, user) ==
    LET previousStock == PreviousStock(op, product.inStock, body.quantity) IN
    [product |-> body.productId,
     type |-> IF op = "adjustment" THEN body.type ELSE op,
     quantity |-> body.quantity,
     previousStock |-> previousStock,
     newStock |-> NewStock(op, body, previousStock),
     notes |-> body.notes,
     createdBy |-> user]

\* The validators of stockMovementSchema that save() runs; notes is the length
\* of the note.
ValidMovement(m) ==
    /\ m.quantity >= 1
    /\ m.type \in {"stock_in", "stock_out", "adjustment", "return", "damage"}
    /\ m.notes <= 500
    /\ m.createdBy # ""

\* Product.findOne and the stock arithmetic of the three handlers.
StockFind(r, op, user, body) ==
    LET rec == [Idle EXCEPT !.op = op, !.user = user, !.body = body] IN
    IF body.productId \notin DOMAIN products
    THEN Respond(r, rec, 404, "Product not found", "")
    ELSE Continue(r, [rec EXCEPT
             !.pc = "movement_save",
             !.doc = <<products[body.productId]>>,
             !.movement = <<NewMovement(op, body, products[body.productId], user)>>])

\* POST /api/admin/stock/in: the validators, then Product.findOne
StockIn(r, user, body) ==
    /\ Free(r)
    /\ Len(movements) < MaxMovements
    /\ IF body.quantity < 1
       THEN Respond(r, Idle, 400, "Validation failed", "")
       ELSE StockFind(r, "stock_in", user, body)
    /\ UNCHANGED <<orders, products, today, movements, reviews, users>>

\* POST /api/admin/stock/out: the validators, then Product.findOne
StockOut(r, user, body) ==
    /\ Free(r)
    /\ Len(movements) < MaxMovements
    /\ IF body.quantity < 1
       THEN Respond(r, Idle, 400, "Validation failed", "")
       ELSE StockFind(r, "stock_out", user, body)
    /\ UNCHANGED <<orders, products, today, movements, reviews, users>>

\* POST /api/admin/stock/adjustment: the validators, then Product.findOne
Adjustment(r, user, body) ==
    /\ Free(r)
    /\ Len(movements) < MaxMovements
    /\ IF body.quantity < 1 \/ body.type \notin {"adjustment", "return", "damage"}
       THEN Respond(r, Idle, 400, "Validation failed", "")
       ELSE StockFind(r, "adjustment", user, body)
    /\ UNCHANGED <<orders, products, today, movements, reviews, users>>

\* 'Stock in recorded successfully' and its like
Recorded(op) ==
    CASE op = "stock_in" -> "Stock in recorded"
      [] op = "stock_out" -> "Stock out recorded"
      [] OTHER -> "Stock adjustment recorded"

\* MovementSave that stores no movement for a decrement that was clamped.
MovementSaveUnlessClamped(r) ==
    LET q == req[r]
        m == q.movement[1]
    IN
    /\ q.pc = "movement_save"
    /\ IF ~ValidMovement(m)
       THEN /\ Respond(r, q, 500, "Server error", "ValidationError")
            /\ UNCHANGED movements
       ELSE /\ movements' = IF m.previousStock - m.quantity < 0 /\ m.newStock = 0
                            THEN movements ELSE Append(movements, m)
            /\ IF q.op = "stock_out" /\ ~(m.newStock <= 0)
               THEN Respond(r, q, 201, Recorded(q.op), "")
               ELSE Continue(r, [q EXCEPT !.pc = "product_save"])
    /\ UNCHANGED <<orders, products, today, reviews, users>>

\* movement.save(); /out answers here when the new stock is above zero.
MovementSave(r) ==
    LET q == req[r] IN
    /\ q.pc = "movement_save"
    /\ IF ~ValidMovement(q.movement[1])
       THEN /\ Respond(r, q, 500, "Server error", "ValidationError")
            /\ UNCHANGED movements
       ELSE /\ movements' = Append(movements, q.movement[1])
            /\ IF q.op = "stock_out" /\ ~(q.movement[1].newStock <= 0)
               THEN Respond(r, q, 201, Recorded(q.op), "")
               ELSE Continue(r, [q EXCEPT !.pc = "product_save"])
    /\ UNCHANGED <<orders, products, today, reviews, users>>

\* The inStock flag the handler assigns to the product it loaded.
InStockAfter(op, newStock) ==
    CASE op = "stock_in" -> TRUE
      [] op = "stock_out" -> FALSE
      [] OTHER -> newStock > 0

\* product.save() of the loaded product and the response.
ProductSave(r) ==
    LET q == req[r]
        id == q.body.productId
        new == [q.doc[1] EXCEPT !.inStock = InStockAfter(q.op, q.movement[1].newStock)]
    IN
    /\ q.pc = "product_save"
    /\ IF id \notin DOMAIN products
       THEN /\ Respond(r, q, 500, "Server error", "DocumentNotFoundError")
            /\ UNCHANGED products
       ELSE /\ products' = [products EXCEPT ![id] =
                              SetPaths(@, new, ModifiedPaths(q.doc[1], new))]
            /\ Respond(r, q, 201, Recorded(q.op), "")
    /\ UNCHANGED <<orders, today, movements, reviews, users>>

\* -------------------------------------------- POST /api/reviews/:productId
\* unique index on (productId, userId)
ReviewExists(productId, userId) ==
    \E k \in 1..Len(reviews) :
        reviews[k].productId = productId /\ reviews[k].userId = userId

\* The checks of the rating and the comment, then Review.findOne.  comment is
\* the length of the trimmed comment; a rating of 0 is an absent one.
CreateReviewFind(r, user, productId, body) ==
    LET rec == [Idle EXCEPT !.op = "review", !.user = user, !.body = body] IN
    /\ Free(r)
    /\ Len(reviews) < MaxReviews
    /\ IF body.rating = 0 \/ body.rating < 1 \/ body.rating > 5
       THEN Respond(r, rec, 400, "Rating must be between 1 and 5", "")
       ELSE IF body.comment < 10
       THEN Respond(r, rec, 400, "Review must be at least 10 characters", "")
       ELSE IF ReviewExists(productId, user)
       THEN Respond(r, rec, 400,
                    "You have already reviewed this product. You can edit your existing review.",
                    "")
       ELSE Continue(r, [rec EXCEPT
                !.pc = "review_save",
                !.doc = <<[productId |-> productId, userId |-> user,
                           rating |-> body.rating, comment |-> body.comment,
                           helpfulVotes |-> 0, helpfulVoters |-> <<>>,
                           version |-> 0]>>])
    /\ UNCHANGED <<orders, products, today, movements, reviews, users>>

\* The validators of reviewSchema that save() runs.
ValidReview(d) ==
    /\ d.productId # "" /\ d.userId # ""
    /\ d.rating >= 1 /\ d.rating <= 5
    /\ d.comment >= 10 /\ d.comment <= 1000

\* CreateReviewSave on a collection without the unique index.
CreateReviewSaveNoIndex(r) ==
    LET q == req[r]
        review == q.doc[1]
    IN
    /\ q.pc = "review_save"
    /\ IF ~ValidReview(review)
       THEN /\ Respond(r, q, 500, "Failed to submit review", "ValidationError")
            /\ UNCHANGED reviews
       ELSE /\ reviews' = Append(reviews, review)
            /\ Respond(r, q, 201, "Review submitted successfully", "")
    /\ UNCHANGED <<orders, products, today, movements, users>>

\* review.save() of the new document and the response (the statistics read
\* for the response change nothing).
CreateReviewSave(r) ==
    LET q == req[r]
        review == q.doc[1]
    IN
    /\ q.pc = "review_save"
    /\ IF ~ValidReview(review)
       THEN /\ Respond(r, q, 500, "Failed to submit review", "ValidationError")
            /\ UNCHANGED reviews
       ELSE IF ReviewExists(review.productId, review.userId)
       THEN /\ Respond(r, q, 400, "You have already reviewed this product",
                       "DuplicateKey")
            /\ UNCHANGED reviews
       ELSE /\ reviews' = Append(reviews, review)
            /\ Respond(r, q, 201, "Review submitted successfully", "")
    /\ UNCHANGED <<orders, products, today, movements, users>>

\* -------------------------------------------- POST /api/reviews/:reviewId/helpful
\* Review.findById
HelpfulFind(r, user, id) ==
    LET rec == [Idle EXCEPT !.op = "helpful", !.user = user, !.id = id] IN
    /\ Free(r)
    /\ IF id > Len(reviews)
       THEN Respond(r, rec, 404, "Review not found", "")
       ELSE /\ reviews[id].version < MaxVotes
            /\ Continue(r, [rec EXCEPT !.pc = "helpful_save", !.doc = <<reviews[id]>>])
    /\ UNCHANGED <<orders, products, today, movements, reviews, users>>

\* helpfulVoters.includes(user._id)
Includes(voters, user) == \E k \in 1..Len(voters) : voters[k] = user
\* helpfulVoters.filter(id => id.toString() !== user._id.toString())
Without(voters, user) == SelectSeq(voters, LAMBDA v : v # user)

\* review.save() of the loaded review and the response.  A new vote is sent as
\* $push of the voter with $set of the count computed from the loaded copy,
\* and increments the version; a withdrawn vote is sent as $set of the filtered
\* array and of the count, for the version that was loaded only.
HelpfulSave(r) ==
    LET q == req[r]
        loaded == q.doc[1]
        stored == reviews[q.id]
    IN
    /\ q.pc = "helpful_save"
    /\ IF Includes(loaded.helpfulVoters, q.user)
       THEN IF stored.version # loaded.version
            THEN /\ Respond(r, q, 500, "Failed to update vote", "VersionError")
                 /\ UNCHANGED reviews
            ELSE /\ reviews' = [reviews EXCEPT ![q.id] =
                        [stored EXCEPT
                            !.helpfulVoters = Without(loaded.helpfulVoters, q.user),
                            !.helpfulVotes = IF Max(0, loaded.helpfulVotes - 1)
                                                  # loaded.helpfulVotes
                                             THEN Max(0, loaded.helpfulVotes - 1)
                                             ELSE @,
                            !.version = @ + 1]]
                 /\ Respond(r, q, 200, "Vote removed", "")
       ELSE /\ reviews' = [reviews EXCEPT ![q.id] =
                   [stored EXCEPT !.helpfulVoters = Append(@, q.user),
                                  !.helpfulVotes = loaded.helpfulVotes + 1,
                                  !.version = @ + 1]]
            /\ Respond(r, q, 200, "Review marked as helpful", "")
    /\ UNCHANGED <<orders, products, today, movements, users>>

\* -------------------------------------------- /api/admin/users
NoUserData == [role |-> "", isActive |-> <<>>]

\* router.use(authenticate, authorize(ROLES.SUPER_ADMIN)): User.findById of the
\* token's user, who must exist, be active and be a super_admin; then the
\* handler of the route (op) runs with the user that was loaded.
Authenticate(r, actor, op, id, body) ==
    LET rec == [Idle EXCEPT !.op = op, !.user = actor, !.body = body] IN
    /\ Free(r)
    /\ IF actor \notin DOMAIN users
       THEN Respond(r, rec, 401, "User not found.", "")
       ELSE IF ~users[actor].isActive
       THEN Respond(r, rec, 401, "Account has been deactivated.", "")
       ELSE IF users[actor].role # "super_admin"
       THEN Respond(r, rec, 403, "Access denied.", "")
       ELSE Continue(r, [rec EXCEPT !.pc = op, !.doc = <<users[actor]>>,
                                    !.num = <<id>>])
    /\ UNCHANGED <<orders, products, today, movements, reviews, users>>

\* The Boolean that Mongoose casts a value of isActive to: false, "false", 0
\* and "0" are all false.
CastBoolean(v) == v.value

\* updateData applied by findByIdAndUpdate
ApplyUserData(user, data) ==
    [role |-> IF data.role # "" THEN data.role ELSE user.role,
     isActive |-> IF data.isActive # <<>> THEN CastBoolean(data.isActive[1])
                  ELSE user.isActive]

\* PUT /api/admin/users/:id: the validators, the tests of an update of
\* oneself, then User.findByIdAndUpdate and the response.  isBoolean accepts
\* the strings "true" and "false" as it does the Booleans; the test
\* isActive === false is true of the Boolean only.
UpdateUser(r) ==
    LET q == req[r]
        id == q.num[1]
        data == q.body
    IN
    /\ q.pc = "user_update"
    /\ IF data.role # "" /\ data.role \notin RoleEnum
       THEN /\ Respond(r, q, 400, "Validation failed", "")
            /\ UNCHANGED users
       ELSE IF id = q.user /\ data.role # "" /\ data.role # q.doc[1].role
       THEN /\ Respond(r, q, 400, "Cannot change your own role", "")
            /\ UNCHANGED users
       ELSE IF /\ id = q.user /\ data.isActive # <<>>
               /\ ~data.isActive[1].quoted /\ data.isActive[1].value = FALSE
       THEN /\ Respond(r, q, 400, "Cannot deactivate your own account", "")
            /\ UNCHANGED users
       ELSE IF id \notin DOMAIN users
       THEN /\ Respond(r, q, 404, "User not found", "")
            /\ UNCHANGED users
       ELSE /\ users' = [users EXCEPT ![id] = ApplyUserData(@, data)]
            /\ Respond(r, q, 200, "User updated successfully", "")
    /\ UNCHANGED <<orders, products, today, movements, reviews>>

\* DELETE /api/admin/users/:id: the test of a deletion of oneself, then
\* User.findByIdAndUpdate(id, { isActive: false }) and the response.
DeleteUser(r) ==
    LET q == req[r]
        id == q.num[1]
    IN
    /\ q.pc = "user_delete"
    /\ IF id = q.user
       THEN /\ Respond(r, q, 400, "Cannot delete your own account", "")
            /\ UNCHANGED users
       ELSE IF id \notin DOMAIN users
       THEN /\ Respond(r, q, 404, "User not found", "")
            /\ UNCHANGED users
       ELSE /\ users' = [users EXCEPT ![id].isActive = FALSE]
            /\ Respond(r, q, 200, "User deactivated successfully", "")
    /\ UNCHANGED <<orders, products, today, movements, reviews>>

\* ------------------------------------------------------------------ clock
\* new Date() moves on to the next calendar month.
NextMonth ==
    /\ today < MaxPeriod
    /\ today' = today + 1
    /\ UNCHANGED <<orders, products, req, resp, movements, reviews, users>>

\* ---------------------------------------------------------- specification
\* The seeded products: ST001 at 1.00 a kg, s1 at 65,000 a ton, s2 at 58 a kg.
Catalogue ==
    [p \in ProductIds |->
        CASE p = "s1" -> [name |-> "TMT Bar - Grade 550D", price |-> 650000000,
                          unit |-> "Ton", inStock |-> TRUE, category |-> "steel"]
          [] p = "s2" -> [name |-> "MS Square Pipes", price |-> 580000,
                          unit |-> "Kg", inStock |-> TRUE, category |-> "steel"]
          [] OTHER -> [name |-> "TMT Bar", price |-> 10000,
                       unit |-> "kg", inStock |-> TRUE, category |-> "steel"]]

\* The accounts of the back office: two super administrators and an admin.
Accounts ==
    [u \in UserIds |->
        [role |-> IF u = "admin1" THEN "admin" ELSE "super_admin", isActive |-> TRUE]]

Init ==
    /\ orders = <<>>
    /\ products = Catalogue
    /\ req = [r \in Reqs |-> Idle]
    /\ resp = NoResponse
    /\ today = 1
    /\ movements = <<>>
    /\ reviews = <<>>
    /\ users = Accounts

\* The requests that arrive are drawn from the bodies given.
Requests(createBodies, updateBodies) ==
    \/ \E r \in Reqs, u \in Users, b \in createBodies : CreateOrderBegin(r, u, b)
    \/ \E r \in Reqs : CreateOrderPrice(r)
    \/ \E r \in Reqs : CreateOrderSave(r)
    \/ \E r \in Reqs, u \in Users, id \in OrderIds, b \in updateBodies :
          UpdateOrderFind(r, u, id, b)
    \/ \E r \in Reqs : UpdateOrderSave(r)
    \/ \E r \in Reqs, u \in Users, id \in OrderIds : IssueInvoiceFind(r, u, id)
    \/ \E r \in Reqs : IssueInvoiceGenerate(r)
    \/ \E r \in Reqs : IssueInvoiceSave(r)

\* One item of ST001 at 100.00: subtotal 10000, GST 1800, grand total 11800.
OneItem == <<[productId |-> "ST001", quantity |-> 1]>>
GoodBody == [NoBody EXCEPT !.customerName = "Asha", !.items = OneItem]

\* amountPaid of a request body: <<>> is an absent field, <<v>> the value v
PaidInputs == { <<>>, <<-100>>, <<0>>, <<3000>>, <<5000>>, <<11800>>, <<15000>> }

\* Orders and invoices numbered across the months: well-formed requests.
SeqCreateBodies == {GoodBody}
SeqUpdateBodies ==
    {[NoBody EXCEPT !.status = "processing"], [NoBody EXCEPT !.notes = "call back"]}
NextSeq == Requests(SeqCreateBodies, SeqUpdateBodies) \/ NextMonth
SpecSeq == Init /\ [][NextSeq]_vars

\* Payments within one month: every amount against the one grand total.
PayCreateBodies == {[GoodBody EXCEPT !.amountPaid = ap] : ap \in PaidInputs}
PayUpdateBodies ==
    {[NoBody EXCEPT !.amountPaid = ap] : ap \in PaidInputs}
NextPay == Requests(PayCreateBodies, PayUpdateBodies)
SpecPay == Init /\ [][NextPay]_vars

\* Fulfilment status within one month: every status a request can name, and
\* malformed orders.
StatusCreateBodies ==
    {GoodBody,
     [GoodBody EXCEPT !.customerName = ""],
     [GoodBody EXCEPT !.items = <<>>],
     [GoodBody EXCEPT !.items = <<[productId |-> "ST001", quantity |-> 0]>>],
     [GoodBody EXCEPT !.items = <<[productId |-> UnknownProduct, quantity |-> 1]>>],
     [GoodBody EXCEPT !.paymentMethod = "upi"],
     [GoodBody EXCEPT !.paymentMethod = "cheque"]}
StatusUpdateBodies ==
    {[NoBody EXCEPT !.status = s] : s \in StatusEnum \cup {"", "shipped"}}
NextStatus == Requests(StatusCreateBodies, StatusUpdateBodies)
SpecStatus == Init /\ [][NextStatus]_vars

\* Pricing: orders of several lines, unknown products, quantities below one, and
\* the product s2 edited or deleted while orders are taken.
ExampleItems == <<[productId |-> "s1", quantity |-> 2],
                  [productId |-> "s2", quantity |-> 10]>>
PriceCreateBodies ==
    {[GoodBody EXCEPT !.items = ExampleItems],
     [GoodBody EXCEPT !.items = <<[productId |-> "s2", quantity |-> 1]>>],
     [GoodBody EXCEPT !.items = <<[productId |-> "s1", quantity |-> 1],
                                  [productId |-> UnknownProduct, quantity |-> 1]>>],
     [GoodBody EXCEPT !.items = <<[productId |-> "s1", quantity |-> 0]>>],
     [GoodBody EXCEPT !.items = <<[productId |-> "s1", quantity |-> -1]>>]}
PriceUpdateBodies ==
    {[NoBody EXCEPT !.amountPaid = <<100000000>>, !.status = "processing"]}
\* s2 renamed and priced 10.55; a negative price
ProductEdits ==
    {[NoProductData EXCEPT !.name = "MS Square Pipes 40mm", !.price = <<105500>>],
     [NoProductData EXCEPT !.price = <<-100>>]}
EditedProducts == {"s2", UnknownProduct}
NextPrice ==
    \/ Requests(PriceCreateBodies, PriceUpdateBodies)
    \/ \E id \in EditedProducts, data \in ProductEdits : UpdateProduct(id, data)
    \/ \E id \in EditedProducts : DeleteProduct(id)
SpecPrice == Init /\ [][NextPrice]_vars

\* Stock: movements of 4 and of 10 on two products, one of which may be deleted;
\* notes is the length of the note sent.
\* A quantity comes as a number or, for 4, also as the string "4".
StockBodies ==
    {[productId |-> p, quantity |-> n, quoted |-> FALSE, type |-> "", notes |-> 0] :
        p \in {"s1", "s2", UnknownProduct}, n \in {0, 4, 10}}
    \cup {[productId |-> "s1", quantity |-> 4, quoted |-> TRUE, type |-> "", notes |-> 0],
          [productId |-> "s1", quantity |-> 4, quoted |-> FALSE, type |-> "",
           notes |-> 501]}
AdjustmentBodies ==
    {[productId |-> "s1", quantity |-> n, quoted |-> FALSE, type |-> t, notes |-> 0] :
        n \in {0, 4}, t \in {"adjustment", "return", "damage", "stock_in"}}
    \cup {[productId |-> "s1", quantity |-> 4, quoted |-> TRUE, type |-> "return",
           notes |-> 0]}
\* The catalogue editor marks s1 out of stock.
AvailabilityEdits == {[NoProductData EXCEPT !.inStock = <<FALSE>>]}
NextStock ==
    \/ \E r \in Reqs, u \in Users, b \in StockBodies : StockIn(r, u, b)
    \/ \E r \in Reqs, u \in Users, b \in StockBodies : StockOut(r, u, b)
    \/ \E r \in Reqs, u \in Users, b \in AdjustmentBodies : Adjustment(r, u, b)
    \/ \E r \in Reqs : MovementSave(r)
    \/ \E r \in Reqs : ProductSave(r)
    \/ DeleteProduct("s2")
    \/ \E data \in AvailabilityEdits : UpdateProduct("s1", data)
SpecStock == Init /\ [][NextStock]_vars

\* Reviews of s1 by two customers, and their votes on the reviews.
ReviewBodies ==
    {[rating |-> n, comment |-> 20] : n \in {0, 5, 6}}
    \cup {[rating |-> 5, comment |-> c] : c \in {5, 1001}}
NextReview ==
    \/ \E r \in Reqs, u \in Customers, b \in ReviewBodies :
          CreateReviewFind(r, u, "s1", b)
    \/ \E r \in Reqs : CreateReviewSave(r)
    \/ \E r \in Reqs, u \in Customers, id \in 1..(MaxReviews + 1) : HelpfulFind(r, u, id)
    \/ \E r \in Reqs : HelpfulSave(r)
SpecReview == Init /\ [][NextReview]_vars

\* User management: roles, and isActive sent as a Boolean or as a string.
UserUpdates ==
    {[NoUserData EXCEPT !.role = ro] : ro \in {"admin", "owner"}}
    \cup {[NoUserData EXCEPT !.isActive = <<[value |-> FALSE, quoted |-> s]>>] :
             s \in BOOLEAN}
NextUsers ==
    \/ \E r \in Reqs, a \in UserIds \cup {UnknownUser}, id \in UserIds \cup {UnknownUser},
          data \in UserUpdates : Authenticate(r, a, "user_update", id, data)
    \/ \E r \in Reqs, a \in UserIds \cup {UnknownUser}, id \in UserIds \cup {UnknownUser} :
          Authenticate(r, a, "user_delete", id, NoUserData)
    \/ \E r \in Reqs : UpdateUser(r)
    \/ \E r \in Reqs : DeleteUser(r)
SpecUsers == Init /\ [][NextUsers]_vars

\* The catalogue: steel and cement products created and deleted.
ProductBodies ==
    {[name |-> n, category |-> c, price |-> 4200000, unit |-> "Bag",
      description |-> "OPC 53 grade"] :
        n \in {"", "Cement"}, c \in {"cement", "steel", "timber"}}
GeneratedIds == {GeneratedId(c, n) : c \in {"cement", "steel"}, n \in 0..4}
NextCatalogue ==
    \/ \E r \in Reqs, u \in Users, b \in ProductBodies : CreateProductCount(r, u, b)
    \/ \E r \in Reqs : CreateProductSave(r)
    \/ \E id \in GeneratedIds \cup {UnknownProduct} : DeleteProduct(id)
SpecCatalogue == Init /\ [][NextCatalogue]_vars

\* ------------------------------------------------------------------ claims
\* Request r sent its response in this step.
Answered(r) == req[r].pc # "idle" /\ req'[r].pc = "idle"

\* C1: every createOrder request of a month ends with its order persisted under
\* an order number no other order carries, however the requests interleave
\* (N requests, N orders, N distinct numbers).
C1_EveryCreatePersists ==
    [][\A r \in Reqs :
          (req[r].pc = "create_save" /\ Answered(r) /\ ValidOrder(NewOrder(req[r])))
          => /\ Len(orders') = Len(orders) + 1
             /\ \A k \in 1..Len(orders) :
                    orders[k].orderNumber # orders'[Len(orders')].orderNumber]_vars

\* C2: a save that hits the uniqueness constraint is retried with a recomputed
\* ordinal; the request fails only after more than one attempt.
C2_RetriesOnConflict ==
    [][\A r \in Reqs :
          (Answered(r) /\ resp'.error = "DuplicateKey") => req[r].attempts > 1]_vars

\* C3: an invoice number that is set is never changed to another value.
C3_InvoiceNumberImmutable ==
    [][\A k \in 1..Len(orders) :
          orders[k].invoiceNumber # <<>>
          => orders'[k].invoiceNumber = orders[k].invoiceNumber]_vars

\* C4: issueInvoice on an order whose invoice number is set is rejected with
\* "Invoice exists" and leaves the order as it was.
C4_SecondInvoiceRejected ==
    [][\A r \in Reqs, u \in Users, id \in OrderIds :
          (/\ IssueInvoiceFind(r, u, id)
           /\ id <= Len(orders)
           /\ orders[id].invoiceNumber # <<>>)
          => /\ resp' = [code |-> 400, message |-> "Invoice exists", error |-> ""]
             /\ req'[r].pc = "idle"
             /\ orders' = orders]_vars
\* An issueInvoice was rejected for an order that was completed by its invoice.
C4_Witness ==
    /\ resp.message = "Invoice exists"
    /\ \E k \in 1..Len(orders) :
          orders[k].invoiceNumber # <<>> /\ orders[k].status = "completed"

\* C5: of the issueInvoice requests for one order at most one reports success:
\* a success is reported only for an order that had no invoice number.
C5_OneIssuerSucceeds ==
    [][\A r \in Reqs :
          (req[r].pc = "invoice_save" /\ Answered(r) /\ resp'.code = 200)
          => orders[req[r].id].invoiceNumber = <<>>]_vars

\* The payment status the specification derives from the amounts.
ClaimedPaymentStatus(amountPaid, grandTotal) ==
    IF amountPaid >= grandTotal THEN "paid"
    ELSE IF 0 < amountPaid /\ amountPaid < grandTotal THEN "partial"
    ELSE "pending"

\* C6: in every state the payment status of every order is the function of
\* (amountPaid, grandTotal).
C6_PaymentStatusDerived ==
    \A k \in 1..Len(orders) :
        orders[k].paymentStatus =
            ClaimedPaymentStatus(orders[k].amountPaid, orders[k].grandTotal)

\* C7: a payment above the grand total is accepted and stored as paid, by
\* createOrder and by updateOrderPayment (of a request that nothing else makes
\* fail: its document is valid but for the sign of amountDue, its order number
\* is free).
C7_OverpaymentAccepted ==
    [][\A r \in Reqs :
          LET q == req[r]
              paid == q.body.amountPaid
          IN /\ (/\ q.pc = "update_save" /\ Answered(r)
                 /\ paid # <<>> /\ paid[1] > q.doc[1].grandTotal
                 /\ ValidOrder([ApplyUpdate(q.doc[1], q.body, q.user)
                                   EXCEPT !.amountDue = 0]))
                => /\ resp'.code = 200
                   /\ orders'[q.id].amountPaid = paid[1]
                   /\ orders'[q.id].paymentStatus = "paid"
             /\ (/\ q.pc = "create_save" /\ Answered(r)
                 /\ paid # <<>> /\ paid[1] > q.subtotal + q.totalGst
                 /\ ~OrderNumberTaken(q.num))
                => /\ resp'.code = 201
                   /\ Len(orders') = Len(orders) + 1
                   /\ orders'[Len(orders')].paymentStatus = "paid"]_vars

\* C8: in every state amountDue = grandTotal - amountPaid for every order.
C8_AmountDue ==
    \A k \in 1..Len(orders) :
        orders[k].amountDue = orders[k].grandTotal - orders[k].amountPaid
\* An order two overlapping payment updates have written to: its amounts are
\* those of the later one, its payment status that of the earlier one.
C8_Witness ==
    \E k \in 1..Len(orders) :
        /\ orders[k].processedBy # ""
        /\ orders[k].amountPaid = 5000
        /\ orders[k].paymentStatus = "paid"

\* The order of the fulfilment states; cancelled stands apart.
Rank(status) ==
    CASE status = "draft" -> 1
      [] status = "confirmed" -> 2
      [] status = "processing" -> 3
      [] status = "completed" -> 4
      [] OTHER -> 0
LegalMove(from, to) ==
    \/ to = from
    \/ from \notin {"completed", "cancelled"} /\ to = "cancelled"
    \/ from \notin {"completed", "cancelled"} /\ to # "cancelled" /\ Rank(to) > Rank(from)

\* C9: the status of an order only moves forward along draft, confirmed,
\* processing, completed, or to cancelled from a state that is not terminal.
C9_StatusMovesForward ==
    [][\A k \in 1..Len(orders) : LegalMove(orders[k].status, orders'[k].status)]_vars

\* C10: an order whose status is completed has its invoice number set.
C10_CompletedHasInvoice ==
    \A k \in 1..Len(orders) :
        orders[k].status = "completed" => orders[k].invoiceNumber # <<>>

\* C11: a successful issueInvoice stores its invoice number and the status
\* completed in one write: the state its save leaves has both.
C11_InvoiceAndStatusTogether ==
    [][\A r \in Reqs :
          (req[r].pc = "invoice_save" /\ Answered(r) /\ resp'.code = 200)
          => /\ orders'[req[r].id].invoiceNumber = req[r].num
             /\ orders'[req[r].id].status = "completed"]_vars

\* No two orders carry the same order number or the same invoice number.
NumbersUnique ==
    \A j, k \in 1..Len(orders) :
        j # k => /\ orders[j].orderNumber # orders[k].orderNumber
                 /\ \/ orders[j].invoiceNumber = <<>>
                    \/ orders[j].invoiceNumber # orders[k].invoiceNumber
\* The ordinals of scope and period that orders carry in the present state.
PersistedOrdinals(scope, period) ==
    {orders[k].orderNumber[3] : k \in {j \in 1..Len(orders) :
        HasPrefix(orders[j].orderNumber, scope, period)}}
    \cup {orders[k].invoiceNumber[3] : k \in {j \in 1..Len(orders) :
        HasPrefix(orders[j].invoiceNumber, scope, period)}}

\* C12: no number is issued twice: order numbers and invoice numbers are unique
\* among the orders, and the ordinal of a successful issuance is greater than
\* every ordinal of its scope and month persisted before it.
C12_NumbersNeverReissued ==
    [][/\ NumbersUnique'
       /\ \A r \in Reqs :
             (/\ req[r].pc \in {"create_save", "invoice_save"}
              /\ Answered(r) /\ resp'.code \in {200, 201})
             => \A o \in PersistedOrdinals(req[r].num[1], req[r].num[2]) :
                    o < req[r].num[3]]_vars

\* C13: every persisted order has grandTotal = subtotal + totalGst and a total
\* discount of zero, also after updateOrderPayment and issueInvoice.
C13_GrandTotal ==
    \A k \in 1..Len(orders) :
        /\ orders[k].grandTotal = orders[k].subtotal + orders[k].totalGst
        /\ orders[k].totalDiscount = 0
\* An order of two lines that a payment update and an invoice have written to.
C13_Witness ==
    \E k \in 1..Len(orders) :
        /\ Len(orders[k].items) = 2
        /\ orders[k].processedBy # ""
        /\ orders[k].invoiceNumber # <<>>

\* f[1] + ... + f[n]
RECURSIVE SumTo(_, _)
SumTo(f, n) == IF n = 0 THEN 0 ELSE f[n] + SumTo(f, n - 1)

\* The sums and line totals the specification gives for an order.
PricedAsClaimed(o) ==
    /\ o.subtotal =
          SumTo([j \in 1..Len(o.items) |-> o.items[j].unitPrice * o.items[j].quantity],
                Len(o.items))
    /\ o.totalGst = SumTo([j \in 1..Len(o.items) |-> o.items[j].gstAmount], Len(o.items))
    /\ \A j \in 1..Len(o.items) :
          LET it == o.items[j] IN
          /\ it.discount = 0
          /\ it.gstRate = 18
          /\ it.totalAmount = it.quantity * it.unitPrice - it.discount + it.gstAmount

\* C14: the order createOrder stores has subtotal = sum of unitPrice x quantity,
\* totalGst = sum of gstAmount, and on each line discount 0, gstRate 18 and
\* totalAmount = quantity x unitPrice - discount + gstAmount.
C14_CreateTotals ==
    [][\A r \in Reqs :
          (req[r].pc = "create_save" /\ Answered(r) /\ resp'.code = 201)
          => PricedAsClaimed(orders'[Len(orders')])]_vars
\* The order of 2 at 65,000 and 10 at 58: subtotal 130,580, GST 23,504.40,
\* grand total 154,084.40.
C14_Witness ==
    \E k \in 1..Len(orders) :
        /\ Len(orders[k].items) = 2
        /\ orders[k].items[1].quantity = 2 /\ orders[k].items[1].unitPrice = 650000000
        /\ orders[k].items[2].quantity = 10 /\ orders[k].items[2].unitPrice = 580000
        /\ orders[k].subtotal = 1305800000
        /\ orders[k].totalGst = 235044000
        /\ orders[k].grandTotal = 1540844000

\* itemTotal x 18 / 100 rounded half-up to whole paise.
RoundedGst(itemTotal) ==
    LET exact == (itemTotal \div 100) * GstRate + ((itemTotal % 100) * GstRate) \div 100
    IN ((exact + Paisa \div 2) \div Paisa) * Paisa

\* C15: the GST of every line is itemTotal x 18 / 100 rounded half-up to whole
\* paise, so that gstAmount, totalAmount, totalGst and grandTotal of every
\* order are whole paise.
C15_WholeMinorUnits ==
    \A k \in 1..Len(orders) :
        /\ orders[k].totalGst % Paisa = 0
        /\ orders[k].grandTotal % Paisa = 0
        /\ \A j \in 1..Len(orders[k].items) :
              LET it == orders[k].items[j] IN
              /\ it.gstAmount = RoundedGst(it.unitPrice * it.quantity)
              /\ it.gstAmount % Paisa = 0
              /\ it.totalAmount % Paisa = 0

\* C16: a createOrder request with a line whose quantity is below one is
\* rejected as the caller's error, not as a failure of the server, and no order
\* is stored.
C16_InvalidQuantityRejected ==
    [][\A r \in Reqs :
          (/\ req[r].pc = "create_save" /\ Answered(r)
           /\ \E j \in 1..Len(req[r].body.items) : req[r].body.items[j].quantity < 1)
          => /\ resp'.code = 400
             /\ orders' = orders]_vars

\* C17: createOrder that comes to a line whose product does not exist, in
\* whatever place, answers 400 "Product not found", stores no order and leaves
\* the next order number as it was.
C17_UnknownProductRejected ==
    [][\A r \in Reqs :
          (/\ CreateOrderPrice(r)
           /\ req[r].body.items[req[r].i].productId \notin DOMAIN products)
          => /\ resp' = [code |-> 400, message |-> "Product not found", error |-> ""]
             /\ req'[r].pc = "idle"
             /\ orders' = orders
             /\ generateOrderNumber' = generateOrderNumber]_vars
\* A createOrder was rejected for its second line: no product was ever deleted,
\* and the bodies name the unknown product in second place only.
C17_Witness ==
    /\ resp = [code |-> 400, message |-> "Product not found", error |-> ""]
    /\ DOMAIN products = ProductIds
    /\ orders = <<>>

\* What an order keeps of its pricing.
Priced(o) == <<o.items, o.subtotal, o.totalDiscount, o.totalGst, o.grandTotal>>

\* C18: a step that edits or deletes a product leaves the lines (productName,
\* sku, unit, unitPrice, gstAmount, totalAmount) and the totals of every order
\* as they were.
C18_SnapshotsKept ==
    [][products' # products
       => /\ Len(orders') = Len(orders)
          /\ \A k \in 1..Len(orders) : Priced(orders'[k]) = Priced(orders[k])]_vars
\* An order with a line whose product was since renamed and re-priced, or with
\* a line whose product was since deleted.
C18_Witness ==
    \/ \E k \in 1..Len(orders) : \E j \in 1..Len(orders[k].items) :
          LET it == orders[k].items[j] IN
          /\ it.sku \in DOMAIN products
          /\ products[it.sku].price # it.unitPrice
          /\ products[it.sku].name # it.productName
          /\ resp.message = "Product updated successfully"
    \/ \E k \in 1..Len(orders) : \E j \in 1..Len(orders[k].items) :
          /\ orders[k].items[j].sku \notin DOMAIN products
          /\ resp.message = "Product deleted successfully"

\* C19: updateOrderPayment and issueInvoice never change the items, subtotal,
\* totalDiscount, totalGst, grandTotal or the order number of any order.
C19_PricingAndNumberFrozen ==
    [][\A r \in Reqs :
          (req[r].op \in {"update", "invoice"} /\ req'[r] # req[r])
          => /\ Len(orders') = Len(orders)
             /\ \A k \in 1..Len(orders) :
                   /\ Priced(orders'[k]) = Priced(orders[k])
                   /\ orders'[k].orderNumber = orders[k].orderNumber]_vars
\* An order that a payment update and an invoice have both written to.
C19_Witness ==
    \E k \in 1..Len(orders) :
        /\ orders[k].processedBy # ""
        /\ orders[k].amountPaid = 100000000
        /\ orders[k].invoiceNumber # <<>>
        /\ orders[k].status = "completed"

\* The on-hand quantity of product p after the first n movements of the ledger:
\* the newStock of its last movement among them, 0 if it has none.
RECURSIVE OnHand(_, _)
OnHand(p, n) ==
    IF n = 0 THEN 0
    ELSE IF movements[n].product = p THEN movements[n].newStock
    ELSE OnHand(p, n - 1)

\* C20: the previousStock of every movement is the on-hand quantity of its
\* product at that moment: the newStock of the movement of that product just
\* before it in the ledger, 0 if there is none.
C20_PreviousStockIsOnHand ==
    \A k \in 1..Len(movements) :
        movements[k].previousStock = OnHand(movements[k].product, k - 1)

\* The new stock the delta rule gives a movement.
DeltaRule(m) ==
    IF m.type \in {"stock_in", "return"} THEN m.previousStock + m.quantity
    ELSE Max(0, m.previousStock - m.quantity)

\* C21: every movement of the ledger obeys the delta rule of its kind, and its
\* newStock is not negative.
C21_DeltaRule ==
    \A k \in 1..Len(movements) :
        /\ movements[k].newStock = DeltaRule(movements[k])
        /\ movements[k].newStock >= 0

\* Movement j is the movement of its product just before movement k.
JustBefore(j, k) ==
    /\ j < k
    /\ movements[j].product = movements[k].product
    /\ \A i \in (j + 1)..(k - 1) : movements[i].product # movements[k].product

\* C22: movements of one product are recorded as a serial order of their
\* requests records them: of two that follow each other in the ledger, the
\* previousStock of the second is the newStock of the first.
C22_SecondSeesFirst ==
    \A j, k \in 1..Len(movements) :
        JustBefore(j, k) => movements[k].previousStock = movements[j].newStock

\* How many times movement m stands in a ledger.
Stored(m, ledger) == Cardinality({k \in 1..Len(ledger) : ledger[k] = m})

\* C23: a stock request that reports failure leaves neither its movement nor
\* its availability change behind: when the movement write fails the ledger is
\* as it was, and when the product write fails the movement the request had
\* stored is gone from the ledger.
C23_FailureLeavesNothing ==
    [][\A r \in Reqs :
          (/\ req[r].pc \in {"movement_save", "product_save"}
           /\ Answered(r) /\ resp'.code = 500)
          => /\ products' = products
             /\ Stored(req[r].movement[1], movements') =
                   IF req[r].pc = "movement_save"
                   THEN Stored(req[r].movement[1], movements)
                   ELSE Stored(req[r].movement[1], movements) - 1]_vars

\* Product p has a movement in the ledger.
HasMovement(p) == \E k \in 1..Len(movements) : movements[k].product = p

\* C24: in every state, a product that has a movement is marked in stock
\* exactly when the newStock of its latest movement is above zero.
C24_InStockDerived ==
    \A p \in DOMAIN products :
        HasMovement(p) => (products[p].inStock = (OnHand(p, Len(movements)) > 0))

\* The kinds of movement a route records.
KindsOf(op) ==
    IF op = "adjustment" THEN {"adjustment", "return", "damage"} ELSE {op}

\* C25: the ledger is append-only.  No step changes or removes a stored
\* movement; a stock request that gets past its movement write has appended
\* exactly one movement, of the product, kind and quantity requested, also
\* when its decrement is clamped; and its later steps append nothing.
C25_LedgerAppendOnly ==
    [][/\ Len(movements') >= Len(movements)
       /\ SubSeq(movements', 1, Len(movements)) = movements
       /\ \A r \in Reqs :
             LET q == req[r] IN
             /\ (q.pc = "movement_save" /\ req'[r] # q /\ ValidMovement(q.movement[1]))
                => /\ Len(movements') = Len(movements) + 1
                   /\ movements'[Len(movements')].product = q.body.productId
                   /\ movements'[Len(movements')].quantity = q.body.quantity
                   /\ movements'[Len(movements')].type \in KindsOf(q.op)
             /\ (q.pc = "product_save" /\ req'[r] # q) => movements' = movements]_vars
\* The ledger holds a movement whose decrement was clamped, and its request
\* was answered as recorded.
C25_Witness ==
    /\ resp.code = 201
    /\ \E k \in 1..Len(movements) :
          /\ movements[k].type \in {"adjustment", "damage"}
          /\ movements[k].previousStock - movements[k].quantity < 0
          /\ movements[k].newStock = 0

\* C27: a stock-out that is answered as recorded has stored a movement with
\* newStock 0, whose previousStock is the quantity requested when the product
\* was in stock and 0 otherwise, and leaves the product marked out of stock.
C27_StockOutEmpties ==
    [][\A r \in Reqs :
          LET q == req[r] IN
          (q.op = "stock_out" /\ Answered(r) /\ resp'.code = 201)
          => /\ q.movement[1].newStock = 0
             /\ q.movement[1].previousStock =
                   (IF q.doc[1].inStock THEN q.body.quantity ELSE 0)
             /\ Stored(q.movement[1], movements') >= 1
             /\ ~products'[q.body.productId].inStock]_vars

\* C26: in every state no two reviews are of the same user and product, and a
\* create-review request that comes to its save when its user has a review of
\* the product is answered 400 "already reviewed" and stores nothing.
C26_OneReviewPerUser ==
    [][/\ \A j, k \in 1..Len(reviews') :
             (/\ reviews'[j].productId = reviews'[k].productId
              /\ reviews'[j].userId = reviews'[k].userId) => j = k
       /\ \A r \in Reqs :
             (/\ req[r].pc = "review_save" /\ Answered(r)
              /\ ReviewExists(req[r].doc[1].productId, req[r].doc[1].userId)
              /\ ValidReview(req[r].doc[1]))
             => /\ resp'.code = 400
                /\ resp'.message = "You have already reviewed this product"
                /\ reviews' = reviews]_vars
\* The second of two overlapping requests of one customer was turned away by
\* the index, and the customer has a review.
C26_Witness ==
    /\ resp.error = "DuplicateKey"
    /\ resp.message = "You have already reviewed this product"
    /\ \E k \in 1..Len(reviews) : reviews[k].userId = "c1"
    /\ \A k \in 1..Len(reviews) : reviews[k].userId # "c2"

\* How many times user u stands in voters.
Times(voters, u) == Cardinality({k \in 1..Len(voters) : voters[k] = u})

\* C30: in every state the helpfulVotes of a review is the number of users in
\* its helpfulVoters, and no user stands there twice.
C30_VotesCountVoters ==
    \A k \in 1..Len(reviews) :
        /\ reviews[k].helpfulVotes = Len(reviews[k].helpfulVoters)
        /\ \A u \in Customers : Times(reviews[k].helpfulVoters, u) <= 1

\* C29: no request changes the role or the activity of the account that sent
\* it, and in every state some super_admin is active.
C29_AdminRemains ==
    [][/\ \A r \in Reqs :
             (req[r].op \in {"user_update", "user_delete"} /\ Answered(r))
             => users'[req[r].user] = users[req[r].user]
       /\ \E u \in DOMAIN users' :
             users'[u].role = "super_admin" /\ users'[u].isActive]_vars

\* C28: a well-formed create-product request that runs while no other request
\* is in flight, after any creations and deletions, is answered 201, and its
\* product is stored under the prefix and count + 1, an id that no product had
\* before.
C28_CreatedIdIsFresh ==
    [][\A r \in Reqs :
          (/\ req[r].pc = "product_save"
           /\ Answered(r)
           /\ \A o \in Reqs \ {r} : req[o].pc = "idle"
           /\ req[r].num[1] = GeneratedId(req[r].body.category,
                                          CountProducts(req[r].body.category)))
          => /\ resp'.code = 201
             /\ req[r].num[1] \notin DOMAIN products
             /\ req[r].num[1] \in DOMAIN products']_vars
=============================================================================
